---- MODULE Spec2Model ----
(***************************************************************************)
(* Stackful generators of coroutines/coroutine.py: the Generator           *)
(* descriptor (GeneratorStruct), Generator.next, the entry functions run   *)
(* through GENERATOR_FUNC, and the libcoroutines.so calls they make.       *)
(***************************************************************************)
EXTENDS Integers, Sequences, FiniteSets, TLC

(* ---------------------------------------------------------------- bounds *)
NumGens == 2
MaxVal == 1
MaxCalls == 5
MaxMultiCalls == 3

(* ------------------------------------------------------- value encodings *)
\* Python's None
NoneV == -1
\* an argument ctypes.c_void_p() rejects (not an integer): the call raises
BadArg == -2
\* ctypes.byref(self): the address of descriptor g
SelfBase == 1000
SelfPtr(g) == SelfBase + g
\* ctypes.addressof(self.stack_memory)
StackBase == 2000
StackAddr(g) == StackBase + g
\* line 56: the size of the buffer Generator.__init__ allocates
StackSize == 8192
\* os.sysconf('SC_PAGE_SIZE')
PageSize == 4096
\* line 45
STACK_CAPACITY == 1024 * PageSize

Gens == 1..NumGens
\* integers a caller passes to next
IntArgs == (0..MaxVal) \cup {5, 10, 20}
Args == {NoneV, BadArg} \cup IntArgs
\* what the return register can hold when a void entry function returns
RegVals == (0..MaxVal) \cup {25}
\* the entry functions given to Generator(func):
\*   example  example_generator: yield 1, yield 2, return
\*   sum      fn(arg) { a = yield(arg+1); b = yield(a+1); return a+b }
\*   count    fn(arg) { yield 0; yield 1; return }
\*   oneshot  fn(arg) { return arg }
EntryKinds == {"example", "sum", "count", "oneshot"}

(* ------------------------------------------------------ ctypes conversion *)
\* restype / callback argument c_void_p: a NULL pointer is given as None
FromC(p) == IF p = 0 THEN NoneV ELSE p
\* ctypes.c_void_p(arg) for an integer arg; None is passed as NULL
ToC(arg) == IF arg = NoneV THEN 0 ELSE arg
\* ctypes.c_void_p(arg) raises for an argument that is no integer
ArgRaises(arg) == arg = BadArg
\* variant: the first call passes None as NULL instead of the descriptor
FreshArgNoSelf(g, arg) == ToC(arg)
\* line 76: the argument of python_generator_next on the first call
FreshArg(g, arg) == IF arg = NoneV THEN SelfPtr(g) ELSE ToC(arg)
\* line 79: the argument of python_generator_yield on a later call
ResumeArg(arg) == IF arg # NoneV THEN ToC(arg) ELSE 0

VARIABLES
  live,             \* the descriptors constructed so far
  fresh, dead,      \* GeneratorStruct.fresh, .dead
  rsp,              \* GeneratorStruct.rsp: the saved context (0: none)
  stack_base,       \* GeneratorStruct.stack_base
  func,             \* GeneratorStruct.func: the entry function
  generator_stack,  \* the library's global: the generator it switches to (0: NULL)
  control,          \* "main", "gen" or "crashed": who is executing
  running,          \* the generator whose stack is executing (0: none)
  pending,          \* the generator whose next() call main is waiting in (0: none)
  pc,               \* per generator: number of yields its entry has made
  started,          \* per generator: number of times entry was invoked
  finished,         \* per generator: entry has returned
  garg,             \* per generator: the argument entry received
  recv,             \* per generator: the value its last wake-up delivered
  locA,             \* per generator: local a of the "sum" entry
  failed,           \* per generator: an exception was raised inside entry
  ret,              \* per generator: what the last next() returned to main
  outcome,          \* per generator: what happened in the last next()
  reent,            \* per generator: result of the last next() made from inside entry
  reentCalls,       \* per generator: number of next() calls made from inside entry
  sent,             \* per generator: values passed to next() calls that switched
  woke,             \* per generator: values entry observed on each wake-up
  yielded,          \* per generator: values entry passed to yield
  results,          \* per generator: sequence of <<outcome, value>> next() returned
  calls,            \* per generator: number of next() calls
  libcalls          \* number of library calls made

desc == <<fresh, dead, rsp, stack_base, func>>
entryv == <<pc, started, finished, garg, recv, locA, failed>>
ghost == <<sent, woke, yielded, results, reentCalls>>
vars == <<live, fresh, dead, rsp, stack_base, func, generator_stack, control,
          running, pending, pc, started, finished, garg, recv, locA, failed,
          ret, outcome, reent, reentCalls, sent, woke, yielded, results, calls,
          libcalls>>

(* ------------------------------------------------------- Generator.__init__ *)
InitDesc ==
  /\ fresh = [g \in Gens |-> TRUE]
  /\ dead = [g \in Gens |-> FALSE]
  /\ rsp = [g \in Gens |-> 0]
  /\ stack_base = [g \in Gens |-> StackAddr(g)]
  /\ func \in [Gens -> EntryKinds]

InitRest ==
  /\ generator_stack = 0
  /\ control = "main"
  /\ running = 0
  /\ pending = 0
  /\ pc = [g \in Gens |-> 0]
  /\ started = [g \in Gens |-> 0]
  /\ finished = [g \in Gens |-> FALSE]
  /\ garg = [g \in Gens |-> NoneV]
  /\ recv = [g \in Gens |-> NoneV]
  /\ locA = [g \in Gens |-> NoneV]
  /\ failed = [g \in Gens |-> FALSE]
  /\ ret = [g \in Gens |-> NoneV]
  /\ outcome = [g \in Gens |-> "none"]
  /\ reent = [g \in Gens |-> NoneV]
  /\ reentCalls = [g \in Gens |-> 0]
  /\ sent = [g \in Gens |-> <<>>]
  /\ woke = [g \in Gens |-> <<>>]
  /\ yielded = [g \in Gens |-> <<>>]
  /\ results = [g \in Gens |-> <<>>]
  /\ calls = [g \in Gens |-> 0]
  /\ libcalls = 0

\* the driver of the module: one generator is created (line 125)
Init ==
  /\ live = {1}
  /\ InitDesc
  /\ \A g \in Gens \ {1} : func[g] = "example"
  /\ InitRest

(* --------------------------------------------------------- lifecycle view *)
\* the lifecycle state the two flags and the position of control encode
LifeState(g) ==
  IF dead[g] THEN "Dead"
  ELSE IF control = "gen" /\ running = g THEN "Running"
  ELSE IF fresh[g] THEN "Fresh"
  ELSE "Suspended"

\* what a caller of next() can tell from the value it got back
Report(v) == IF v = NoneV THEN "Exhausted" ELSE "Value"

\* next() hands value v back to main for the call on generator p
Return(p, kind, v) ==
  /\ ret' = [ret EXCEPT ![p] = v]
  /\ outcome' = [outcome EXCEPT ![p] = kind]
  /\ results' = [results EXCEPT ![p] = Append(@, <<kind, v>>)]

(* ----------------------------------------------------------- the library *)
\* python_generator_next(g, carg): first switch into the generator; the
\* launcher invokes entry(carg) on the generator's stack
LibGeneratorNext(g, carg) ==
  /\ fresh' = [fresh EXCEPT ![g] = FALSE]
  /\ generator_stack' = g
  /\ control' = "gen"
  /\ running' = g
  /\ started' = [started EXCEPT ![g] = @ + 1]
  /\ garg' = [garg EXCEPT ![g] = FromC(carg)]
  /\ woke' = [woke EXCEPT ![g] = Append(@, FromC(carg))]
  /\ libcalls' = libcalls + 1

\* python_generator_yield(cval) called by main: switch into the saved context
\* of the library's current generator, cval becomes the return of its yield
LibResume(cval) ==
  LET t == generator_stack IN
  /\ control' = "gen"
  /\ running' = t
  /\ recv' = [recv EXCEPT ![t] = FromC(cval)]
  /\ woke' = [woke EXCEPT ![t] = Append(@, FromC(cval))]
  /\ libcalls' = libcalls + 1

\* generator_yield(cval, stack_ptr) called inside entry: save the context,
\* switch back to the resumer with cval as the value its call returns
LibYield(g, cval) ==
  /\ rsp' = [rsp EXCEPT ![g] = StackAddr(g) + pc[g] + 1]
  /\ control' = "main"
  /\ running' = 0
  /\ pending' = 0
  /\ Return(pending, "Yielded", FromC(cval))
  /\ libcalls' = libcalls + 1

\* variant: the launcher switches back without marking the descriptor
LibFinishUnmarked(g, r, marked) ==
  /\ dead' = marked
  /\ control' = "main"
  /\ running' = 0
  /\ pending' = 0
  /\ finished' = [finished EXCEPT ![g] = TRUE]
  /\ Return(pending, IF failed'[g] THEN "Failed" ELSE "Completed", FromC(r))

\* the launcher after entry has returned: mark the descriptor dead, then the
\* final switch back to the resumer; entry is a void function, the value
\* carried is what the return register holds
LibFinish(g, r, marked) ==
  /\ dead' = [marked EXCEPT ![g] = TRUE]
  /\ control' = "main"
  /\ running' = 0
  /\ pending' = 0
  /\ finished' = [finished EXCEPT ![g] = TRUE]
  /\ Return(pending, IF failed'[g] THEN "Failed" ELSE "Completed", FromC(r))

\* python_generator_yield(cval) called while generator g is Running: the
\* resume is refused, no switch is made; the call returns a pointer value r
LibReentrant(g, r) ==
  /\ reent' = [reent EXCEPT ![g] = FromC(r)]
  /\ libcalls' = libcalls + 1

(* -------------------------------------------------------- Generator.next *)
\* variant: a dead generator hands the argument back instead of None
NextDeadEcho(g, arg) ==
  /\ control = "main" /\ g \in live /\ calls[g] < MaxCalls
  /\ dead[g]
  /\ Return(g, "Exhausted", IF arg = BadArg THEN NoneV ELSE arg)
  /\ calls' = [calls EXCEPT ![g] = @ + 1]
  /\ UNCHANGED <<live, desc, generator_stack, control, running, pending,
                 entryv, reent, reentCalls, sent, woke, yielded, libcalls>>

\* variant: the library is called before the dead flag is looked at
NextDeadLib(g, arg) ==
  /\ control = "main" /\ g \in live /\ calls[g] < MaxCalls
  /\ dead[g]
  /\ Return(g, "Exhausted", NoneV)
  /\ calls' = [calls EXCEPT ![g] = @ + 1]
  /\ libcalls' = libcalls + 1
  /\ UNCHANGED <<live, desc, generator_stack, control, running, pending,
                 entryv, reent, reentCalls, sent, woke, yielded>>

\* variant: the dead flag is not looked at, the library resumes the generator
NextDeadSwitch(g, arg) ==
  /\ control = "main" /\ g \in live /\ calls[g] < MaxCalls
  /\ dead[g]
  /\ control' = "gen" /\ running' = g /\ pending' = g
  /\ sent' = [sent EXCEPT ![g] = Append(@, arg)]
  /\ woke' = [woke EXCEPT ![g] = Append(@, arg)]
  /\ calls' = [calls EXCEPT ![g] = @ + 1]
  /\ libcalls' = libcalls + 1
  /\ UNCHANGED <<live, desc, generator_stack, entryv, ret, outcome, reent,
                 reentCalls, yielded, results>>

\* lines 68-69
NextDead(g, arg) ==
  /\ control = "main" /\ g \in live /\ calls[g] < MaxCalls
  /\ dead[g]
  /\ Return(g, "Exhausted", NoneV)
  /\ calls' = [calls EXCEPT ![g] = @ + 1]
  /\ UNCHANGED <<live, desc, generator_stack, control, running, pending,
                 entryv, reent, reentCalls, sent, woke, yielded, libcalls>>

\* lines 72-76
NextFresh(g, arg) ==
  /\ control = "main" /\ g \in live /\ calls[g] < MaxCalls
  /\ ~dead[g] /\ fresh[g] /\ ~ArgRaises(arg)
  /\ LibGeneratorNext(g, FreshArg(g, arg))
  /\ pending' = g
  /\ sent' = [sent EXCEPT ![g] = Append(@, arg)]
  /\ calls' = [calls EXCEPT ![g] = @ + 1]
  /\ UNCHANGED <<live, dead, rsp, stack_base, func, pc, finished, recv, locA,
                 failed, ret, outcome, reent, reentCalls, yielded, results>>

\* the library's current generator is parked at a yield
CtxLive(t) == t # 0 /\ rsp[t] # 0 /\ ~finished[t]

\* lines 77-79
NextResume(g, arg) ==
  /\ control = "main" /\ g \in live /\ calls[g] < MaxCalls
  /\ ~dead[g] /\ ~fresh[g] /\ ~ArgRaises(arg)
  /\ CtxLive(generator_stack)
  /\ LibResume(ResumeArg(arg))
  /\ pending' = g
  /\ sent' = [sent EXCEPT ![g] = Append(@, arg)]
  /\ calls' = [calls EXCEPT ![g] = @ + 1]
  /\ UNCHANGED <<live, desc, generator_stack, pc, started, finished, garg,
                 locA, failed, ret, outcome, reent, reentCalls, yielded, results>>

\* variant: the handler resets the generator instead of marking it dead
NextRaiseRefresh(g, arg) ==
  /\ control = "main" /\ g \in live /\ calls[g] < MaxCalls
  /\ ~dead[g] /\ ArgRaises(arg)
  /\ fresh' = [fresh EXCEPT ![g] = TRUE]
  /\ Return(g, "Raised", NoneV)
  /\ calls' = [calls EXCEPT ![g] = @ + 1]
  /\ UNCHANGED <<live, dead, rsp, stack_base, func, generator_stack, control,
                 running, pending, entryv, reent, reentCalls, sent, woke,
                 yielded, libcalls>>

\* variant: the handler returns None and leaves the dead flag alone
NextRaiseNoMark(g, arg) ==
  /\ control = "main" /\ g \in live /\ calls[g] < MaxCalls
  /\ ~dead[g] /\ ArgRaises(arg)
  /\ Return(g, "Raised", NoneV)
  /\ calls' = [calls EXCEPT ![g] = @ + 1]
  /\ UNCHANGED <<live, desc, generator_stack, control, running, pending,
                 entryv, reent, reentCalls, sent, woke, yielded, libcalls>>

\* lines 77-79 when the library's current generator has already returned:
\* the switch goes into a stack frame that no longer exists
NextResumeStale(g, arg) ==
  /\ control = "main" /\ g \in live /\ calls[g] < MaxCalls
  /\ ~dead[g] /\ ~fresh[g] /\ ~ArgRaises(arg)
  /\ ~CtxLive(generator_stack)
  /\ control' = "crashed"
  /\ pending' = g
  /\ sent' = [sent EXCEPT ![g] = Append(@, arg)]
  /\ calls' = [calls EXCEPT ![g] = @ + 1]
  /\ libcalls' = libcalls + 1
  /\ UNCHANGED <<live, desc, generator_stack, running, entryv, ret, outcome,
                 reent, reentCalls, woke, yielded, results>>

\* lines 80-84: building the c_void_p argument raised
NextRaise(g, arg) ==
  /\ control = "main" /\ g \in live /\ calls[g] < MaxCalls
  /\ ~dead[g] /\ ArgRaises(arg)
  /\ dead' = [dead EXCEPT ![g] = TRUE]
  /\ Return(g, "Raised", NoneV)
  /\ calls' = [calls EXCEPT ![g] = @ + 1]
  /\ UNCHANGED <<live, fresh, rsp, stack_base, func, generator_stack, control,
                 running, pending, entryv, reent, reentCalls, sent, woke,
                 yielded, libcalls>>

\* next() called from inside the entry function of the running generator
\* (the library has cleared fresh by then, so line 72 takes the else branch)
ReentrantNext(g, arg, r) ==
  /\ control = "gen" /\ running = g /\ calls[g] < MaxCalls
  /\ calls' = [calls EXCEPT ![g] = @ + 1]
  /\ reentCalls' = [reentCalls EXCEPT ![g] = @ + 1]
  /\ IF dead[g]
       THEN /\ reent' = [reent EXCEPT ![g] = NoneV]
            /\ UNCHANGED <<dead, libcalls>>
     ELSE IF ArgRaises(arg)
       THEN /\ dead' = [dead EXCEPT ![g] = TRUE]
            /\ reent' = [reent EXCEPT ![g] = NoneV]
            /\ UNCHANGED libcalls
     ELSE /\ LibReentrant(g, r)
          /\ UNCHANGED dead
  /\ UNCHANGED <<live, fresh, rsp, stack_base, func, generator_stack, control,
                 running, pending, entryv, ret, outcome, sent, woke, yielded,
                 results>>

(* --------------------------------------------------- the entry functions *)
\* number of yields the entry makes before it returns
NumYields(kind) == IF kind = "oneshot" THEN 0 ELSE 2

\* variant: example_generator yields 0 and 1
ExampleYieldFromZero(g) == pc[g]
\* variant: example_generator's first yield hands back the argument it got
ExampleYieldEcho(g) ==
  IF pc[g] = 0 /\ garg[g] # NoneV /\ garg[g] < SelfBase THEN garg[g]
  ELSE pc[g] + 1
\* lines 100, 104: example_generator yields 1, then 2
ExampleYield(g) == pc[g] + 1

\* the yields of the other entry functions
ScenarioYield(g) ==
  IF func[g] = "count" THEN pc[g]
  ELSE IF pc[g] = 0 THEN garg[g] + 1
  ELSE recv[g] + 1

\* the value entry passes to its next yield
YieldVal(g) ==
  IF func[g] = "example" THEN ExampleYield(g) ELSE ScenarioYield(g)

\* the value entry returns
EntryResult(g) ==
  IF func[g] = "sum" THEN locA[g] + recv[g]
  ELSE IF func[g] = "oneshot" THEN garg[g]
  ELSE NoneV

\* fn(arg) { a = yield(arg+1); b = yield(a+1); return a+b }: arithmetic on
\* None raises TypeError
MustRaise(g) ==
  /\ func[g] = "sum"
  /\ \/ pc[g] = 0 /\ garg[g] = NoneV
     \/ pc[g] > 0 /\ recv[g] = NoneV

\* a call made in the try block of example_generator may raise (line 109)
MayRaise(g) == MustRaise(g) \/ func[g] = "example"

\* lines 113-117: arg is taken for the address of a descriptor
MarksDead(g, h) == func[g] = "example" /\ garg[g] = SelfPtr(h)
WildWrite(g) ==
  /\ func[g] = "example"
  /\ garg[g] # NoneV
  /\ \A h \in Gens : garg[g] # SelfPtr(h)

\* lines 111-119 and the return through the ctypes callback
Finally(g, r) ==
  LibFinish(g, r, [h \in Gens |-> dead[h] \/ MarksDead(g, h)])

\* lines 99-105
EntryYield(g) ==
  /\ control = "gen" /\ running = g
  /\ pc[g] < NumYields(func[g]) /\ ~MustRaise(g)
  /\ generator_stack # 0
  /\ LibYield(g, ToC(YieldVal(g)))
  /\ pc' = [pc EXCEPT ![g] = @ + 1]
  /\ locA' = [locA EXCEPT ![g] = IF pc[g] = 1 THEN recv[g] ELSE @]
  /\ yielded' = [yielded EXCEPT ![g] = Append(@, YieldVal(g))]
  /\ UNCHANGED <<live, fresh, dead, stack_base, func, generator_stack,
                 started, finished, garg, recv, failed, reent, reentCalls, sent,
                 woke, calls>>

\* lines 107-108 (and 95-97)
EntryReturn(g, r) ==
  /\ control = "gen" /\ running = g
  /\ pc[g] = NumYields(func[g]) \/ generator_stack = 0
  /\ ~MustRaise(g)
  /\ failed' = failed
  /\ Finally(g, r)
  /\ UNCHANGED <<live, fresh, rsp, stack_base, func, generator_stack, pc,
                 started, garg, recv, locA, reent, reentCalls, sent, woke, yielded,
                 calls, libcalls>>

\* lines 109-110, or an exception leaving the callback
EntryFail(g, r) ==
  /\ control = "gen" /\ running = g
  /\ MayRaise(g)
  /\ failed' = [failed EXCEPT ![g] = TRUE]
  /\ Finally(g, r)
  /\ UNCHANGED <<live, fresh, rsp, stack_base, func, generator_stack, pc,
                 started, garg, recv, locA, reent, reentCalls, sent, woke, yielded,
                 calls, libcalls>>

\* line 117 with arg no descriptor address: the store faults
EntryCrash(g) ==
  /\ control = "gen" /\ running = g
  /\ WildWrite(g)
  /\ control' = "crashed"
  /\ UNCHANGED <<live, desc, generator_stack, running, pending, entryv, ret,
                 outcome, reent, ghost, calls, libcalls>>

Next ==
  \/ \E g \in Gens, arg \in Args : NextDead(g, arg)
  \/ \E g \in Gens, arg \in Args : NextFresh(g, arg)
  \/ \E g \in Gens, arg \in Args : NextResume(g, arg)
  \/ \E g \in Gens, arg \in Args : NextRaise(g, arg)
  \/ \E g \in Gens, arg \in Args, r \in RegVals : ReentrantNext(g, arg, r)
  \/ \E g \in Gens : EntryYield(g)
  \/ \E g \in Gens, r \in RegVals : EntryReturn(g, r)
  \/ \E g \in Gens, r \in RegVals : EntryFail(g, r)
  \/ \E g \in Gens : EntryCrash(g)

Spec == Init /\ [][Next]_vars

(* ------------------------------------------------- two generators alive *)
\* the arguments passed to next in the runs with two generators
MultiArgs == {NoneV, BadArg, 1}

\* two Generator objects have been constructed
InitMulti ==
  /\ live = {1, 2}
  /\ InitDesc
  /\ \A g \in Gens : func[g] \in {"example", "count"}
  /\ \A g \in Gens \ {1, 2} : func[g] = "example"
  /\ InitRest

Few(g) == calls[g] < MaxMultiCalls

NextMulti ==
  \/ \E g \in Gens, arg \in MultiArgs : Few(g) /\ NextDead(g, arg)
  \/ \E g \in Gens, arg \in MultiArgs : Few(g) /\ NextFresh(g, arg)
  \/ \E g \in Gens, arg \in MultiArgs : Few(g) /\ NextResume(g, arg)
  \/ \E g \in Gens, arg \in MultiArgs : Few(g) /\ NextResumeStale(g, arg)
  \/ \E g \in Gens, arg \in MultiArgs : Few(g) /\ NextRaise(g, arg)
  \/ \E g \in Gens, arg \in MultiArgs, r \in RegVals :
        Few(g) /\ ReentrantNext(g, arg, r)
  \/ \E g \in Gens : EntryYield(g)
  \/ \E g \in Gens, r \in RegVals : EntryReturn(g, r)
  \/ \E g \in Gens, r \in RegVals : EntryFail(g, r)
  \/ \E g \in Gens : EntryCrash(g)

SpecMulti == InitMulti /\ [][NextMulti]_vars

(* ================================================================ claims *)
Terminal == {"Completed", "Failed"}
Exhausted == <<"Exhausted", NoneV>>

\* C1: once a resume of a generator has reported Completed or Failed, every
\* later resume of it returns the Exhausted sentinel (None), whatever the
\* argument of the first resume was.
C1_TerminalIdempotent ==
  \A g \in Gens : \A i, j \in 1..Len(results[g]) :
    (i < j /\ results[g][i][1] \in Terminal) => results[g][j] = Exhausted

C1_Witness ==
  \E g \in Gens :
    /\ Len(results[g]) >= 3
    /\ Len(sent[g]) >= 1 /\ sent[g][1] # NoneV
    /\ results[g][Len(results[g]) - 2][1] \in Terminal
    /\ results[g][Len(results[g])] = Exhausted

\* a run in which entry yielded twice and then returned
TwoYieldRun(g) == finished[g] /\ ~failed[g] /\ Len(yielded[g]) = 2

C3_RoundTrip ==
  \A g \in Gens :
    /\ \A n \in 1..Len(woke[g]) :
         (n <= Len(sent[g]) /\ sent[g][n] # NoneV) => woke[g][n] = sent[g][n]
    /\ \A n \in 1..Len(yielded[g]) :
         n <= Len(results[g]) => results[g][n] = <<"Yielded", yielded[g][n]>>

\* C4: a resume made while the generator is Running reports ReentrantResume
\* and leaves the descriptor unchanged.
C4_ReentrantReported ==
  [][\A g \in Gens :
       reentCalls'[g] # reentCalls[g] =>
         /\ Report(reent'[g]) = "ReentrantResume"
         /\ UNCHANGED <<fresh, dead, rsp, stack_base, func>>
         /\ control' = control /\ running' = running]_vars

\* C5: fn(arg) { a = yield(arg+1); b = yield(a+1); return a+b } resumed with
\* 10, 20, 5, 0 returns Yielded(11), Yielded(21), Completed(25), Exhausted.
C5_Expected == << <<"Yielded", 11>>, <<"Yielded", 21>>, <<"Completed", 25>>,
                  Exhausted >>
C5_Scenario ==
  \A g \in Gens :
    (func[g] = "sum" /\ reentCalls[g] = 0 /\ Len(sent[g]) >= 1
      /\ \A i \in 1..Len(results[g]) : results[g][i][1] # "Raised"
      /\ \A n \in 1..Len(sent[g]) : n <= 3 /\ sent[g][n] = <<10, 20, 5>>[n])
    => \A i \in 1..Len(results[g]) : i <= 4 => results[g][i] = C5_Expected[i]

\* C6: a resume of a Dead generator returns None, makes no library call and
\* no switch, and leaves every field of the descriptor unchanged.
C6_DeadResumeNoOp ==
  [][\A g \in Gens :
       (dead[g] /\ calls'[g] # calls[g]) =>
         /\ UNCHANGED <<fresh, dead, rsp, stack_base, func>>
         /\ libcalls' = libcalls
         /\ control' = control /\ running' = running
         /\ IF control = "main"
              THEN ret'[g] = NoneV /\ outcome'[g] = "Exhausted"
              ELSE reent'[g] = NoneV]_vars

C6_Witness ==
  \E g \in Gens : dead[g] /\ outcome[g] = "Exhausted" /\ calls[g] >= 2

\* C7: when entry fails, the resume in progress returns a distinguished
\* Failed result and the generator is Dead.
C7_FailureSurfaced ==
  \A g \in Gens :
    outcome[g] = "Failed" => Report(ret[g]) = "Failed" /\ dead[g]

\* C8: every resume's result can be told apart; in particular a yielded
\* value (0 included) is never reported as the Exhausted sentinel.
C8_NeverMistakenForExhausted ==
  \A g \in Gens : outcome[g] = "Yielded" => ret[g] # NoneV

\* what entry is given for the first resume's argument a
DeliveredFirst(g, a) ==
  IF a = NoneV THEN SelfPtr(g) ELSE IF a = 0 THEN NoneV ELSE a

C10_OneShot ==
  \A g \in Gens :
    (func[g] = "oneshot" /\ finished[g] /\ ~failed[g]) =>
      results[g][1] = <<"Completed", EntryResult(g)>> /\ dead[g]

\* entries that yield before they read their argument
YieldsFirst == {"example", "count"}
\* what next() returns for the first yield of such an entry
FirstYieldReported(kind) == IF kind = "example" THEN 1 ELSE NoneV

Segments(g) == Len(yielded[g]) + (IF finished[g] THEN 1 ELSE 0)

\* C12: caller and generator strictly alternate: while the caller runs,
\* every resume that switched has been answered by exactly one segment that
\* reached a yield or the return of entry; while the generator runs, exactly
\* one resume is waiting for it and it has not returned; the generator has
\* been woken exactly once per resume.
C12_StrictAlternation ==
  \A g \in Gens :
    /\ Len(woke[g]) = Len(sent[g])
    /\ control = "main" =>
         /\ running = 0 /\ pending = 0
         /\ Len(sent[g]) = Segments(g)
    /\ (control = "gen" /\ running = g) =>
         /\ pending = g /\ ~finished[g]
         /\ Len(sent[g]) = Segments(g) + 1

C12_Witness ==
  \E g \in Gens :
    control = "gen" /\ running = g /\ Len(sent[g]) = 3 /\ Len(yielded[g]) = 2

\* the moves of the lifecycle state the specification allows
SpecMoves ==
  { <<"Fresh", "Running">>, <<"Running", "Suspended">>,
    <<"Suspended", "Running">>, <<"Running", "Dead">> }
\* the moves the exception handler of next() adds (lines 80-84)
RaiseMoves == { <<"Fresh", "Dead">>, <<"Suspended", "Dead">> }

\* C13 as stated: the lifecycle state only moves Fresh -> Running,
\* Running -> Suspended, Suspended -> Running and Running -> Dead.
C13_OnlySpecMoves ==
  [][\A g \in Gens :
       (control' # "crashed" /\ LifeState(g)' # LifeState(g)) =>
         <<LifeState(g), LifeState(g)'>> \in SpecMoves]_vars

\* C13 amended: besides those four moves a descriptor goes Fresh -> Dead and
\* Suspended -> Dead when next() catches an exception; it never returns to
\* Fresh and a Dead descriptor stays Dead.
C13_LifecycleMoves ==
  [][\A g \in Gens :
       (control' # "crashed" /\ LifeState(g)' # LifeState(g)) =>
         <<LifeState(g), LifeState(g)'>> \in SpecMoves \cup RaiseMoves]_vars

C13_Witness ==
  \E g \in Gens :
    /\ Len(results[g]) >= 3
    /\ results[g][1][1] = "Yielded"
    /\ results[g][2][1] = "Raised"
    /\ LifeState(g) = "Dead"

\* C14: in the state where the resume that observes entry's return has
\* returned, the generator is already Dead, whatever the first argument was.
C14_DeadWhenCompletionObserved ==
  \A g \in Gens :
    (finished[g] \/ outcome[g] \in Terminal) => dead[g] /\ control = "main"

C14_Witness ==
  \E g \in Gens :
    /\ outcome[g] = "Completed" /\ dead[g]
    /\ Len(sent[g]) >= 1 /\ sent[g][1] \in IntArgs \ {0}

\* C15: with two generators alive, a resume of generator G switches into
\* G's own context: the generator that runs is the one next() was called on.
C15_ResumesOwnGenerator ==
  control = "gen" => running = pending

\* C16: a resume switches only into a context written by the most recent
\* yield of a generator that is Suspended, never into that of a generator
\* that is Dead or Fresh.
C16_SwitchIntoSavedContext ==
  [][\A g \in Gens :
       (control = "main" /\ ~fresh[g] /\ Len(sent'[g]) > Len(sent[g])) =>
         LET t == generator_stack IN
           /\ LifeState(t) = "Suspended"
           /\ ~finished[t]
           /\ rsp[t] = StackAddr(t) + pc[t]]_vars

\* C17: the flags fresh and dead of a descriptor are never both true.
C17_FlagsExclusive ==
  \A g \in Gens : ~(fresh[g] /\ dead[g])

\* a resume of generator g has ended in the exception handler of next()
HasRaised(g) == \E i \in 1..Len(results[g]) : results[g][i][1] = "Raised"

\* C18: when the library call of next() raises, next() marks the generator
\* dead and returns None, and every later next() on it returns None without
\* a library call.
C18_RaiseKills ==
  [][\A g \in Gens :
       /\ (~HasRaised(g) /\ HasRaised(g)') =>
            /\ dead'[g] /\ ret'[g] = NoneV
            /\ libcalls' = libcalls /\ control' = "main"
       /\ (HasRaised(g) /\ calls'[g] # calls[g]) =>
            /\ ret'[g] = NoneV /\ outcome'[g] = "Exhausted"
            /\ libcalls' = libcalls /\ dead'[g]]_vars

C18_Witness ==
  \E g \in Gens :
    /\ Len(results[g]) >= 4
    /\ results[g][2][1] = "Raised"
    /\ results[g][4] = Exhausted

\* C19: the buffer at stack_base holds STACK_CAPACITY bytes, so the stack top
\* stack_base + STACK_CAPACITY lies within the allocated buffer.
C19_StackTopInBuffer ==
  \A g \in live :
    stack_base[g] + STACK_CAPACITY <= stack_base[g] + StackSize

====
